---- MODULE Spec2Model ----
(***************************************************************************)
(* A model of the Alexson lossless parser: the lexer (lexer.py), the       *)
(* recursive-descent parser (parser.py) and the concrete syntax tree with  *)
(* its indexed mutation and serialization (syntax_tree.py).                *)
(*                                                                         *)
(* A text is a sequence of one-character strings.  Python object identity  *)
(* is modelled by a heap: a sequence of node records, a node's id being    *)
(* its index; children, dict entries and items hold ids.                   *)
(***************************************************************************)
EXTENDS Integers, Sequences, FiniteSets, TLC

VARIABLES
    text,        \* Lexer.text / AlexsonParser.text
    lexer,       \* Lexer.pos, row, col and the lexical error raised, if any
    tokens,      \* the token list tokenize() is building / parser.tokens
    token_pos,   \* Lexer.token_id_position_map, aligned with tokens
    spans,       \* <<pos before, pos after>> of each next_token() call
    pc,          \* where the caller stands
    config,      \* parser.config
    result,      \* what parse() returned or raised
    heap,        \* the nodes parse() and the caller allocated
    root,        \* id of the Root that parse() returned, 0 if none
    nsets,       \* number of obj[k] = node assignments made
    api_exc,     \* exception raised by the last indexed assignment
    last_set,    \* the last indexed assignment: target, key, new node, heap before
    reparse      \* outcome of parsing the tree's serialization again

vars == <<text, lexer, tokens, token_pos, spans, pc, config, result, heap, root,
          nsets, api_exc, last_set, reparse>>

----------------------------------------------------------------------------
(* Characters *)

Quote == "\""
Backslash == "\\"
NL == "\n"
TAB == "\t"
SP == " "
None == "None"

Letters == {"a", "b", "c", "d", "e", "f", "g", "h", "i", "j", "k", "l", "m",
            "n", "o", "p", "q", "r", "s", "t", "u", "v", "w", "x", "y", "z",
            "A", "B", "C", "D", "E", "F", "G", "H", "I", "J", "K", "L", "M",
            "N", "O", "P", "Q", "R", "S", "T", "U", "V", "W", "X", "Y", "Z"}
Digits == {"0", "1", "2", "3", "4", "5", "6", "7", "8", "9"}
Punctuation == {"{", "}", "[", "]", ":", ",", Quote, Backslash, SP, NL, TAB,
                "#", ".", "_", "-"}
Chars == Letters \cup Digits \cup Punctuation

isalpha(c) == c \in Letters
isdigit(c) == c \in Digits

RECURSIVE Concat(_)
Concat(ss) == IF ss = <<>> THEN <<>> ELSE Head(ss) \o Concat(Tail(ss))

----------------------------------------------------------------------------
(* lexer.py *)

LITERAL_TYPES == {"STRING", "NUMBER", "BOOLEAN", "NULL", "VARIABLE"}
NON_JSON_TYPES == {"COMMENT", "NEWLINES", "SPACES", "TABS"}

Token(type, value) == [type |-> type, value |-> value]

\* Lexer.__init__
Lexer == [pos |-> 0, row |-> 1, col |-> 0, exc |-> "none", msg |-> <<>>]

current_char(t, L) == IF L.pos < Len(t) THEN t[L.pos + 1] ELSE None

\* Lexer.error
lexer_error(L, msg) == [L EXCEPT !.exc = "AlexsonLexicalError", !.msg = msg]

\* Lexer._next
lexer_next(t, L) ==
    IF L.exc # "none" THEN L
    ELSE LET p == L.pos + 1
             moved == [L EXCEPT !.pos = p]
         IN  IF p > Len(t) THEN lexer_error(moved, <<"End of input">>)
             ELSE IF current_char(t, moved) = NL
                  THEN [moved EXCEPT !.row = @ + 1, !.col = 0]
                  ELSE [moved EXCEPT !.col = @ + 1]

\* Lexer.next
RECURSIVE next(_, _, _)
next(t, L, length) ==
    IF length = 0 THEN L ELSE next(t, lexer_next(t, L), length - 1)

\* Lexer.peek; <<None>> stands for the None it returns near the end of input
peek(t, L, length) ==
    LET peek_pos == L.pos + length
    IN  IF peek_pos >= Len(t) THEN <<None>>
        ELSE SubSeq(t, L.pos + 2, peek_pos + 1)

\* The loop shared by whitespaces, tabs, newlines, comment and number:
\* while current_char is one of `accepted', append it and advance.
RECURSIVE scan_while(_, _, _, _)
scan_while(t, L, accepted, value) ==
    IF L.exc = "none" /\ current_char(t, L) \in accepted
    THEN scan_while(t, lexer_next(t, L), accepted, Append(value, current_char(t, L)))
    ELSE [L |-> L, value |-> value]

scanned(type, r) == [L |-> r.L, token |-> Token(type, r.value)]

whitespaces(t, L) == scanned("SPACES", scan_while(t, L, {SP}, <<>>))
tabs(t, L) == scanned("TABS", scan_while(t, L, {TAB}, <<>>))
newlines(t, L) == scanned("NEWLINES", scan_while(t, L, {NL}, <<>>))
comment(t, L) == scanned("COMMENT", scan_while(t, L, Chars \ {NL}, <<>>))
number(t, L) == scanned("NUMBER", scan_while(t, L, Digits \cup {"."}, <<>>))

\* Lexer.variable
variable(t, L) ==
    scanned("VARIABLE",
            scan_while(t, lexer_next(t, L), Letters \cup Digits \cup {"_"},
                       <<current_char(t, L)>>))

\* Lexer.string: the loop, then the closing quote
RECURSIVE string_loop(_, _, _, _)
string_loop(t, L, value, escaped) ==
    LET c == current_char(t, L)
    IN  IF L.exc = "none" /\ c # None /\ ~(c = Quote /\ ~escaped)
        THEN IF c = Backslash
             THEN string_loop(t, lexer_next(t, L), value, TRUE)
             ELSE string_loop(t, lexer_next(t, L), Append(value, c), FALSE)
        ELSE [L |-> L, value |-> value]

\* string with no closing quote demanded at the end of the input
string_lenient(t, L) ==
    LET r == string_loop(t, lexer_next(t, L), <<>>, FALSE)
    IN  [L |-> IF current_char(t, r.L) = None THEN r.L ELSE lexer_next(t, r.L),
         token |-> Token("STRING", r.value)]

string(t, L) ==
    LET r == string_loop(t, lexer_next(t, L), <<>>, FALSE)
    IN  [L |-> lexer_next(t, r.L), token |-> Token("STRING", r.value)]

single(t, L, type) ==
    [L |-> lexer_next(t, L), token |-> Token(type, <<current_char(t, L)>>)]

\* keyword with the last character of the word left in the input
keyword_short(t, L, type, word) ==
    [L |-> next(t, L, Len(word) - 1), token |-> Token(type, word)]

keyword(t, L, type, word) ==
    [L |-> next(t, L, Len(word)), token |-> Token(type, word)]

\* Lexer.next_token, called with current_char not None
next_token(t, L) ==
    LET c == current_char(t, L)
    IN  IF c = "t" /\ peek(t, L, 3) = <<"r", "u", "e">>
            THEN keyword(t, L, "BOOLEAN", <<"t", "r", "u", "e">>)
        ELSE IF c = "f" /\ peek(t, L, 4) = <<"a", "l", "s", "e">>
            THEN keyword(t, L, "BOOLEAN", <<"f", "a", "l", "s", "e">>)
        ELSE IF c = "n" /\ peek(t, L, 3) = <<"u", "l", "l">>
            THEN keyword(t, L, "NULL", <<"n", "u", "l", "l">>)
        ELSE IF c = Quote THEN string(t, L)
        ELSE IF c = "#" THEN comment(t, L)
        ELSE IF c = NL THEN newlines(t, L)
        ELSE IF c = TAB THEN tabs(t, L)
        ELSE IF c = SP THEN whitespaces(t, L)
        ELSE IF c = "{" THEN single(t, L, "LBRACE")
        ELSE IF c = "}" THEN single(t, L, "RBRACE")
        ELSE IF c = "[" THEN single(t, L, "LBRACKET")
        ELSE IF c = "]" THEN single(t, L, "RBRACKET")
        ELSE IF c = ":" THEN single(t, L, "COLON")
        ELSE IF c = "," THEN single(t, L, "COMMA")
        ELSE IF isalpha(c) \/ c = "_" THEN variable(t, L)
        ELSE IF isdigit(c) THEN number(t, L)
        ELSE [L |-> lexer_error(L, <<"Unexpected character", c>>),
              token |-> Token("NONE", <<>>)]

\* Lexer.tokenize, as one call
RECURSIVE tokenize_loop(_, _, _, _, _)
tokenize_loop(t, L, toks, poss, spns) ==
    IF L.exc # "none" \/ current_char(t, L) = None
    THEN [L |-> L, tokens |-> toks, token_pos |-> poss, spans |-> spns]
    ELSE LET r == next_token(t, L)
         IN  IF r.L.exc # "none"
             THEN [L |-> r.L, tokens |-> toks, token_pos |-> poss, spans |-> spns]
             ELSE tokenize_loop(t, r.L, Append(toks, r.token),
                                Append(poss, <<r.L.row, r.L.col>>),
                                Append(spns, <<L.pos, r.L.pos>>))

tokenize(t) == tokenize_loop(t, Lexer, <<>>, <<>>, <<>>)

----------------------------------------------------------------------------
(* syntax_tree.py: the nodes *)

BlockClasses == {"Root", "Object", "Array"}
LiteralClasses == {"String", "Number", "Boolean", "Null", "Variable"}
NonJsonClasses == {"Comment", "WhiteSpace", "NewLine", "Tab"}
NonEditableClasses ==
    NonJsonClasses \cup {"Colon", "Comma", "LBrace", "RBrace", "LBracket", "RBracket"}

\* Number.__eq__ compares floats with tolerance 1e-6; floats are modelled as
\* integers counting units of 1e-7.
FloatScale == 10000000
FloatFracDigits == 7
NumberTolerance == 10

DigitValue(c) ==
    CASE c = "0" -> 0 [] c = "1" -> 1 [] c = "2" -> 2 [] c = "3" -> 3
      [] c = "4" -> 4 [] c = "5" -> 5 [] c = "6" -> 6 [] c = "7" -> 7
      [] c = "8" -> 8 [] c = "9" -> 9

CountOf(s, c) == Cardinality({i \in 1..Len(s) : s[i] = c})

\* float(s) succeeds on a token of digits and dots iff it has at most one dot
\* and at least one digit
float_ok(s) ==
    /\ \A i \in 1..Len(s) : s[i] \in Digits \cup {"."}
    /\ CountOf(s, ".") <= 1
    /\ \E i \in 1..Len(s) : s[i] \in Digits

RECURSIVE digits_value(_)
digits_value(s) ==
    IF s = <<>> THEN 0 ELSE digits_value(SubSeq(s, 1, Len(s) - 1)) * 10 + DigitValue(s[Len(s)])

RECURSIVE pad_right(_, _)
pad_right(s, n) == IF Len(s) >= n THEN SubSeq(s, 1, n) ELSE pad_right(Append(s, "0"), n)

float(s) ==
    LET dot == IF CountOf(s, ".") = 0 THEN Len(s) + 1
               ELSE CHOOSE i \in 1..Len(s) : s[i] = "."
        int_part == SubSeq(s, 1, dot - 1)
        frac_part == pad_right(SubSeq(s, dot + 1, Len(s)), FloatFracDigits)
    IN  digits_value(int_part) * FloatScale + digits_value(frac_part)

Node(cls) ==
    [cls |-> cls, value |-> <<>>, bool |-> FALSE, num |-> 0,
     children |-> <<>>, dict |-> <<>>, items |-> <<>>]

String(value) == [Node("String") EXCEPT !.value = value]
Number(value) == [Node("Number") EXCEPT !.value = value, !.num = float(value)]
Variable(name) == [Node("Variable") EXCEPT !.value = name]
Boolean(boolean) == [Node("Boolean") EXCEPT !.bool = boolean]
Null == Node("Null")
Comment(c) == [Node("Comment") EXCEPT !.value = c]

\* Object.dict: entries in insertion order, key -> (key node, value node)
dict_keys(d) == {d[i].key : i \in 1..Len(d)}
dict_get(d, key) == d[CHOOSE i \in 1..Len(d) : d[i].key = key]
dict_set(d, key, k, v) ==
    IF key \in dict_keys(d)
    THEN [i \in 1..Len(d) |-> IF d[i].key = key THEN [key |-> key, k |-> k, v |-> v] ELSE d[i]]
    ELSE Append(d, [key |-> key, k |-> k, v |-> v])

----------------------------------------------------------------------------
(* parser.py *)

\* The state a parse runs on: the token index, the nodes built, the exception
\* raised (if any) and the value the last call returned.
ParserState ==
    [i |-> 1, h |-> <<>>, exc |-> "none", msg |-> [what |-> "", arg |-> <<>>],
     pos |-> <<>>, out |-> 0]

\* AlexsonParser.current
current(p, st) == IF st.i <= Len(p.tokens) THEN p.tokens[st.i] ELSE Token(None, <<>>)

\* AlexsonParser.advance
advance(st) == [st EXCEPT !.i = @ + 1]

\* AlexsonParser.get_token_pos of the current token
get_token_pos(p, st) == IF st.i <= Len(p.tokens) THEN p.token_pos[st.i] ELSE <<-1, -1>>

raise(p, st, what, arg) ==
    [st EXCEPT !.exc = "AlexsonParserException", !.msg = [what |-> what, arg |-> arg],
               !.pos = get_token_pos(p, st)]

\* self.current().type when current() is None
attribute_error(st) ==
    [st EXCEPT !.exc = "AttributeError", !.msg = [what |-> "NoneType.type", arg |-> <<>>]]

alloc(st, node) == [st EXCEPT !.h = Append(@, node), !.out = Len(st.h) + 1]

\* block.children.append(the node just allocated or returned)
append_out(st, block) ==
    IF st.exc # "none" THEN st ELSE [st EXCEPT !.h[block].children = Append(@, st.out)]

\* block.children.extend(the list just returned)
extend_out(st, block) ==
    IF st.exc # "none" THEN st ELSE [st EXCEPT !.h[block].children = @ \o st.out]

repeat(id, n) == [k \in 1..n |-> id]

\* AlexsonParser._parse_non_json
RECURSIVE non_json_loop(_, _, _)
non_json_loop(p, st, empty_spaces) ==
    LET tok == current(p, st)
    IN  IF tok.type = None THEN attribute_error(st)
        ELSE IF tok.type \notin NON_JSON_TYPES THEN [st EXCEPT !.out = empty_spaces]
        ELSE IF tok.type = "NEWLINES"
            THEN LET a == alloc(st, Node("NewLine"))
                 IN  non_json_loop(p, advance(a), empty_spaces \o repeat(a.out, Len(tok.value)))
        ELSE IF tok.type = "SPACES"
            THEN LET a == alloc(st, Node("WhiteSpace"))
                 IN  non_json_loop(p, advance(a), empty_spaces \o repeat(a.out, Len(tok.value)))
        ELSE IF tok.type = "TABS"
            THEN LET a == alloc(st, Node("Tab"))
                 IN  non_json_loop(p, advance(a), empty_spaces \o repeat(a.out, Len(tok.value)))
        ELSE IF tok.type = "COMMENT" /\ p.config.allow_comments
            THEN LET a == alloc(st, Comment(tok.value))
                 IN  non_json_loop(p, advance(a), Append(empty_spaces, a.out))
        ELSE non_json_loop(p, advance(st), empty_spaces)

parse_non_json(p, st) ==
    IF st.exc # "none" THEN st
    ELSE IF current(p, st).type = None THEN [st EXCEPT !.out = <<>>]
    ELSE non_json_loop(p, st, <<>>)

RECURSIVE parse_value(_, _)
RECURSIVE obj_loop(_, _, _)
RECURSIVE array_loop(_, _, _)

\* lines 128-132: consume '}' and return obj
obj_close(p, st, obj) ==
    [advance(append_out(alloc(st, Node("RBrace")), obj)) EXCEPT !.out = obj]

\* lines 121-126
obj_after_comma(p, st, obj) ==
    LET a == extend_out(parse_non_json(p, st), obj)
    IN  IF a.exc # "none" THEN a
        ELSE IF p.config.allow_trailing_comma
            THEN IF current(p, a).type = None THEN attribute_error(a)
                 ELSE IF current(p, a).type = "RBRACE" THEN obj_close(p, a, obj)
                 ELSE obj_loop(p, a, obj)
        ELSE obj_loop(p, a, obj)

\* lines 114-119
obj_comma(p, st, obj) ==
    IF st.exc # "none" THEN st
    ELSE IF current(p, st).type = None THEN attribute_error(st)
    ELSE IF current(p, st).type = "COMMA"
        THEN obj_after_comma(p, advance(append_out(alloc(st, Node("Comma")), obj)), obj)
    ELSE IF current(p, st).type # "RBRACE"
        THEN raise(p, st, "Unexpected token", current(p, st).value)
    ELSE obj_after_comma(p, st, obj)

\* obj_register with the key registered whether or not it is already there
obj_register_unchecked(p, st, obj, key) ==
    IF st.exc # "none" THEN st
    ELSE LET value == st.out
             a == append_out(st, obj)
             k == a.h[key].value
             b == [a EXCEPT !.h[obj].dict = dict_set(@, k, key, value)]
         IN  obj_comma(p, extend_out(parse_non_json(p, b), obj), obj)

\* lines 103-112, st.out being the value parse_value returned
obj_register(p, st, obj, key) ==
    IF st.exc # "none" THEN st
    ELSE LET value == st.out
             a == append_out(st, obj)
             k == a.h[key].value
         IN  IF k \in dict_keys(a.h[obj].dict) THEN raise(p, a, "Duplicate key", k)
             ELSE LET b == [a EXCEPT !.h[obj].dict = dict_set(@, k, key, value)]
                  IN  obj_comma(p, extend_out(parse_non_json(p, b), obj), obj)

\* lines 92-102
obj_colon(p, st, obj, key) ==
    IF st.exc # "none" THEN st
    ELSE IF current(p, st).type = None THEN attribute_error(st)
    ELSE IF current(p, st).type # "COLON"
        THEN raise(p, st, "Unexpected token", current(p, st).value)
    ELSE LET a == advance(append_out(alloc(st, Node("Colon")), obj))
             b == extend_out(parse_non_json(p, a), obj)
         IN  obj_register(p, parse_value(p, b), obj, key)

\* lines 78-90
obj_member(p, st, obj) ==
    LET a == extend_out(parse_non_json(p, st), obj)
    IN  IF a.exc # "none" THEN a
        ELSE IF current(p, a).type = None THEN attribute_error(a)
        ELSE IF current(p, a).type # "STRING"
            THEN raise(p, a, "Unexpected token", current(p, a).value)
        ELSE LET b == alloc(a, String(current(p, a).value))
                 key == b.out
                 c == advance(append_out(b, obj))
             IN  obj_colon(p, extend_out(parse_non_json(p, c), obj), obj, key)

\* line 77
obj_loop(p, st, obj) ==
    IF st.exc # "none" THEN st
    ELSE IF current(p, st).type = None THEN attribute_error(st)
    ELSE IF current(p, st).type # "RBRACE" THEN obj_member(p, st, obj)
    ELSE obj_close(p, st, obj)

\* AlexsonParser._parse_obj
parse_obj(p, st) ==
    IF st.exc # "none" THEN st
    ELSE LET a == alloc(st, Node("Object"))
             obj == a.out
         IN  IF current(p, a).type = None THEN attribute_error(a)
             ELSE IF current(p, a).type # "LBRACE"
                 THEN raise(p, a, "Unexpected token, expecting {", current(p, a).value)
             ELSE obj_loop(p, advance([alloc(a, Node("LBrace")) EXCEPT
                                           !.h[obj].children = Append(@, Len(a.h) + 1)]), obj)

\* lines 178-182
array_close(p, st, array) ==
    [advance(append_out(alloc(st, Node("RBracket")), array)) EXCEPT !.out = array]

\* lines 170-176
array_comma(p, st, array) ==
    IF st.exc # "none" THEN st
    ELSE IF current(p, st).type = None THEN attribute_error(st)
    ELSE IF current(p, st).type = "COMMA"
        THEN array_loop(p, advance(append_out(alloc(st, Node("Comma")), array)), array)
    ELSE IF current(p, st).type # "RBRACKET"
        THEN raise(p, st, "Unexpected token, expecting , or ]", current(p, st).value)
    ELSE array_loop(p, st, array)

\* lines 159-168
array_item(p, st, array) ==
    LET a == extend_out(parse_non_json(p, st), array)
        b == append_out(parse_value(p, a), array)
    IN  IF b.exc # "none" THEN b
        ELSE LET c == [b EXCEPT !.h[array].items = Append(@, b.out)]
             IN  array_comma(p, extend_out(parse_non_json(p, c), array), array)

\* line 158
array_loop(p, st, array) ==
    IF st.exc # "none" THEN st
    ELSE IF current(p, st).type = None THEN attribute_error(st)
    ELSE IF current(p, st).type # "RBRACKET" THEN array_item(p, st, array)
    ELSE array_close(p, st, array)

\* AlexsonParser._parse_array
parse_array(p, st) ==
    IF st.exc # "none" THEN st
    ELSE LET a == alloc(st, Node("Array"))
             array == a.out
         IN  array_loop(p, advance([alloc(a, Node("LBracket")) EXCEPT
                                        !.h[array].children = Append(@, Len(a.h) + 1)]), array)

\* AlexsonParser.parse_value
parse_value(p, st) ==
    IF st.exc # "none" THEN st
    ELSE LET tok == current(p, st)
         IN  IF tok.type = None THEN attribute_error(st)
             ELSE IF tok.type = "STRING" THEN advance(alloc(st, String(tok.value)))
             ELSE IF tok.type = "NUMBER"
                 THEN IF float_ok(tok.value) THEN advance(alloc(st, Number(tok.value)))
                      ELSE raise(p, st, "Invalid number value", tok.value)
             ELSE IF tok.type = "NULL" THEN advance(alloc(st, Null))
             ELSE IF tok.type = "BOOLEAN"
                 THEN IF tok.value = <<"t", "r", "u", "e">>
                          THEN advance(alloc(st, Boolean(TRUE)))
                      ELSE IF tok.value = <<"f", "a", "l", "s", "e">>
                          THEN advance(alloc(st, Boolean(FALSE)))
                      ELSE raise(p, st, "Invalid boolean value", tok.value)
             ELSE IF tok.type = "VARIABLE" THEN advance(alloc(st, Variable(tok.value)))
             ELSE IF tok.type = "LBRACE" THEN parse_obj(p, st)
             ELSE IF tok.type = "LBRACKET" THEN parse_array(p, st)
             ELSE raise(p, st, "Unexpected token", tok.value)

\* lines 58-64: the formatting after the root container, then the assertion
parse_tail(p, st, node) ==
    LET a == extend_out(parse_non_json(p, append_out(st, node)), node)
    IN  IF a.exc # "none" THEN a
        ELSE IF current(p, a).type # None
            THEN [a EXCEPT !.exc = "AssertionError",
                           !.msg = [what |-> "assert self.current() is None", arg |-> <<>>]]
        ELSE [a EXCEPT !.out = node]

\* parse with no return for an empty token list: the empty input reaches the
\* test for the root container
parse_expecting_container(p) ==
    LET s0 == alloc(ParserState, Node("Root"))
        node == s0.out
        a == extend_out(parse_non_json(p, s0), node)
    IN  IF a.exc # "none" THEN a
        ELSE IF current(p, a).type = "LBRACE"
            THEN parse_tail(p, parse_obj(p, a), node)
        ELSE IF current(p, a).type = "LBRACKET"
            THEN parse_tail(p, parse_array(p, a), node)
        ELSE raise(p, a, "Unexpected token, expecting Object or Array",
                   current(p, a).value)

\* AlexsonParser.parse
parse(p) ==
    LET s0 == alloc(ParserState, Node("Root"))
        node == s0.out
    IN  IF current(p, s0).type = None THEN s0
        ELSE LET a == extend_out(parse_non_json(p, s0), node)
             IN  IF a.exc # "none" THEN a
                 ELSE IF current(p, a).type = None THEN [a EXCEPT !.out = node]
                 ELSE IF current(p, a).type = "LBRACE"
                     THEN parse_tail(p, parse_obj(p, a), node)
                 ELSE IF current(p, a).type = "LBRACKET"
                     THEN parse_tail(p, parse_array(p, a), node)
                 ELSE raise(p, a, "Unexpected token, expecting Object or Array",
                            current(p, a).value)

\* AlexsonParser.__init__ followed by parse(): <<"lex", L>> when tokenize() raises
parse_text(t, cfg) ==
    LET lx == tokenize(t)
    IN  IF lx.L.exc # "none"
        THEN [ParserState EXCEPT !.exc = lx.L.exc]
        ELSE parse([tokens |-> lx.tokens, token_pos |-> lx.token_pos, config |-> cfg])

----------------------------------------------------------------------------
(* syntax_tree.py: serialization, equality, indexed access *)

\* String.to_alexson writing the value as it is
unescaped(s) == s

\* str.replace('"', '\\"')
RECURSIVE escape_quotes(_)
escape_quotes(s) ==
    IF s = <<>> THEN <<>>
    ELSE (IF Head(s) = Quote THEN <<Backslash, Quote>> ELSE <<Head(s)>>)
         \o escape_quotes(Tail(s))

\* AlexsonNode.to_alexson of node `id' of heap h, for every class
RECURSIVE to_alexson(_, _)
RECURSIVE join_alexson(_, _)
to_alexson(h, id) ==
    LET n == h[id]
    IN  CASE n.cls \in BlockClasses -> join_alexson(h, n.children)
          [] n.cls = "String" -> <<Quote>> \o escape_quotes(n.value) \o <<Quote>>
          [] n.cls = "Number" -> n.value
          [] n.cls = "Variable" -> n.value
          [] n.cls = "Boolean" -> IF n.bool THEN <<"t", "r", "u", "e">>
                                  ELSE <<"f", "a", "l", "s", "e">>
          [] n.cls = "Null" -> <<"n", "u", "l", "l">>
          [] n.cls = "Comment" -> n.value
          [] n.cls = "WhiteSpace" -> <<SP>>
          [] n.cls = "NewLine" -> <<NL>>
          [] n.cls = "Tab" -> <<TAB>>
          [] n.cls = "Colon" -> <<":">>
          [] n.cls = "Comma" -> <<",">>
          [] n.cls = "LBrace" -> <<"{">>
          [] n.cls = "RBrace" -> <<"}">>
          [] n.cls = "LBracket" -> <<"[">>
          [] n.cls = "RBracket" -> <<"]">>

\* BlockNode.to_alexson: ''.join of the children's texts
join_alexson(h, ids) ==
    IF ids = <<>> THEN <<>> ELSE to_alexson(h, Head(ids)) \o join_alexson(h, Tail(ids))

Abs(x) == IF x < 0 THEN -x ELSE x

\* a == b for nodes a, b of heap h: the __eq__ of a's class; containers
\* compare their lists element by element, identical elements being equal
RECURSIVE node_eq(_, _, _)
RECURSIVE list_eq(_, _, _)
RECURSIVE dict_eq(_, _, _)
node_eq(h, a, b) ==
    LET x == h[a]
        y == h[b]
    IN  IF a = b THEN TRUE
        ELSE IF x.cls # y.cls THEN FALSE
        ELSE CASE x.cls = "Comment" -> x.value = y.value
               [] x.cls \in NonEditableClasses \ {"Comment"} -> TRUE
               [] x.cls = "Number" -> Abs(x.num - y.num) < NumberTolerance
               [] x.cls \in {"String", "Variable"} -> x.value = y.value
               [] x.cls = "Boolean" -> x.bool = y.bool
               [] x.cls = "Null" -> TRUE
               [] x.cls = "Root" -> list_eq(h, x.children, y.children)
               [] x.cls = "Object" ->
                     list_eq(h, x.children, y.children) /\ dict_eq(h, x.dict, y.dict)
               [] x.cls = "Array" ->
                     list_eq(h, x.children, y.children) /\ list_eq(h, x.items, y.items)

list_eq(h, xs, ys) ==
    /\ Len(xs) = Len(ys)
    /\ \A i \in 1..Len(xs) : node_eq(h, xs[i], ys[i])

dict_eq(h, d, e) ==
    /\ Len(d) = Len(e)
    /\ \A i \in 1..Len(d) :
          /\ d[i].key \in dict_keys(e)
          /\ node_eq(h, d[i].k, dict_get(e, d[i].key).k)
          /\ node_eq(h, d[i].v, dict_get(e, d[i].key).v)

\* list.index(x): the first position holding an element equal to x, 0 if none
\* (Python raises ValueError)
index(h, list, x) ==
    IF \E i \in 1..Len(list) : node_eq(h, list[i], x)
    THEN CHOOSE i \in 1..Len(list) :
            /\ node_eq(h, list[i], x)
            /\ \A j \in 1..(i - 1) : ~node_eq(h, list[j], x)
    ELSE 0

\* Object.__getitem__
Object_getitem(h, obj, item) == dict_get(h[obj].dict, item).v

\* Object.__setitem__ on heap h: the heap afterwards and the exception raised
Object_setitem(h, obj, key, value) ==
    IF key \in dict_keys(h[obj].dict)
    THEN LET old == dict_get(h[obj].dict, key)
             at == index(h, h[obj].children, old.v)
         IN  IF at = 0 THEN [h |-> h, exc |-> "ValueError"]
             ELSE [h |-> [h EXCEPT ![obj].children[at] = value,
                                   ![obj].dict = dict_set(@, key, old.k, value)],
                   exc |-> "none"]
    ELSE [h |-> h, exc |-> "NotImplementedError"]

\* list[key] for a Python list of length n: the position read or written,
\* counted from 1, and 0 where Python raises IndexError
list_position(n, key) ==
    IF 0 <= key /\ key < n THEN key + 1
    ELSE IF key < 0 /\ 0 - n <= key THEN n + key + 1
    ELSE 0

\* Array.__getitem__, 0 standing for IndexError
Array_getitem(h, arr, item) ==
    IF list_position(Len(h[arr].items), item) = 0 THEN 0
    ELSE h[arr].items[list_position(Len(h[arr].items), item)]

\* Array.__setitem__ on heap h: the heap afterwards and the exception raised
Array_setitem(h, arr, key, value) ==
    LET at == list_position(Len(h[arr].items), key)
    IN  IF at = 0 THEN [h |-> h, exc |-> "IndexError"]
        ELSE [h |-> [h EXCEPT ![arr].items[at] = value], exc |-> "none"]

\* Root.get_primary_obj: the first container among the children, 0 for None
get_primary_obj(h, r) ==
    LET blocks == {i \in 1..Len(h[r].children) : h[h[r].children[i]].cls \in BlockClasses}
    IN  IF blocks = {} THEN 0
        ELSE h[r].children[CHOOSE i \in blocks : \A j \in blocks : i <= j]

\* The nodes a caller reaches from node `id' with [key] and [index]
RECURSIVE reachable(_, _)
reachable(h, id) ==
    IF id = 0 THEN {}
    ELSE LET n == h[id]
             below == IF n.cls = "Root" THEN {get_primary_obj(h, id)}
                      ELSE IF n.cls = "Object" THEN {n.dict[i].v : i \in 1..Len(n.dict)}
                      ELSE IF n.cls = "Array" THEN {n.items[i] : i \in 1..Len(n.items)}
                      ELSE {}
         IN  {id} \cup UNION {reachable(h, c) : c \in below}

----------------------------------------------------------------------------
(* Inputs *)

TRUE_ == <<"t", "r", "u", "e">>
FALSE_ == <<"f", "a", "l", "s", "e">>
NULL_ == <<"n", "u", "l", "l">>

\* Config: the two options the parser reads
Configs == [allow_trailing_comma : BOOLEAN, allow_comments : BOOLEAN]
NoConfig == [allow_trailing_comma |-> FALSE, allow_comments |-> FALSE]

MaxPieces == 3
MaxMembers == 2
MaxSets == 2
MaxScanPieces == 2

SeqsUpTo(S, n) == UNION {[1..k -> S] : k \in 0..n}

\* Texts for the lexer alone: every concatenation of at most MaxPieces pieces,
\* a piece being one character, a keyword, an escaped quote or a string with
\* a backslash in it
LexPieces ==
    {<<c>> : c \in {"{", "}", "[", "]", ":", ",", Quote, Backslash, SP, NL, TAB,
                    "#", ".", "_", "a", "1"}}
    \cup {TRUE_, FALSE_, NULL_}
    \cup {<<Backslash, Quote>>, <<Quote, "b", Backslash, "c", Quote>>}
LexInputs == {Concat(ps) : ps \in SeqsUpTo(LexPieces, MaxPieces)}
ScanInputs == {Concat(ps) : ps \in SeqsUpTo(LexPieces, MaxScanPieces)}

\* Documents for the parser: a root object or array of at most MaxMembers
\* members, written compactly, then varied in one respect at a time.
StrA == <<Quote, "a", Quote>>
StrB == <<Quote, "b", Quote>>
KeyLexemes == {StrA, StrB}
ObjValueLexemes == {<<"1">>, StrA, <<Quote, "b", Backslash, "c", Quote>>}
ArrValueLexemes ==
    {<<"1">>, <<"x">>, TRUE_, <<"[">> \o NULL_ \o <<"]">>,
     <<"{">> \o StrB \o <<":", "1", "}">>, <<Quote, Backslash, Quote, Quote>>,
     <<"1", ".", "2", ".", "3">>}
Fmts == {<<SP>>, <<TAB, "#", "c", NL>>, <<SP, "#", "c">>}
Gaps == {"lead", "open", "key", "colon", "value", "comma", "trail"}
Trailers == {<<"{", "}">>, <<"2">>, <<Quote>>}

\* An item is <<lexeme, kind of the gap after it>>
MemberItems(m) == <<<<m[1], "key">>, <<<<":">>, "colon">>, <<m[2], "value">>>>
ValueItems(v) == <<<<v, "value">>>>

RECURSIVE Separated(_, _)
Separated(parts, sep) ==
    IF parts = <<>> THEN <<>>
    ELSE IF Len(parts) = 1 THEN parts[1]
    ELSE parts[1] \o sep \o Separated(Tail(parts), sep)

Items(kind, ms, trailing_comma, trailer) ==
    LET parts == [i \in 1..Len(ms) |->
                     IF kind = "object" THEN MemberItems(ms[i]) ELSE ValueItems(ms[i])]
        comma == <<<<<<",">>, "comma">>>>
    IN  <<<<<<>>, "lead">>, <<(IF kind = "object" THEN <<"{">> ELSE <<"[">>), "open">>>>
        \o Separated(parts, comma)
        \o (IF trailing_comma THEN comma ELSE <<>>)
        \o <<<<(IF kind = "object" THEN <<"}">> ELSE <<"]">>), "trail">>>>
        \o (IF trailer = <<>> THEN <<>> ELSE <<<<trailer, "end">>>>)

Render(items, gap, fmt) ==
    Concat([i \in 1..Len(items) |->
               items[i][1] \o (IF items[i][2] = gap THEN fmt ELSE <<>>)])

Variants(kind, ms) ==
    LET plain == Items(kind, ms, FALSE, <<>>)
    IN  {Render(plain, g, f) : g \in Gaps, f \in Fmts}
        \cup {Render(Items(kind, ms, TRUE, <<>>), g, f) : g \in {"none", "comma"}, f \in Fmts}
        \cup {Render(Items(kind, ms, FALSE, t), g, <<SP>>) :
                 t \in Trailers, g \in {"none", "trail"}}
        \cup {Render(SubSeq(plain, 1, n), "none", <<>>) : n \in 0..Len(plain)}

DocInputs ==
    Fmts
    \cup UNION {Variants("object", ms) : ms \in SeqsUpTo(KeyLexemes \X ObjValueLexemes, MaxMembers)}
    \cup UNION {Variants("array", vs) : vs \in SeqsUpTo(ArrValueLexemes, MaxMembers)}

\* Documents to edit: objects and arrays of numbers, strings and nested
\* objects, compact or with a space after each colon
EditValueLexemes == {<<"1">>, StrA, <<"{">> \o StrB \o <<":", "1", "}">>}
EditVariants(kind, ms) ==
    {Render(Items(kind, ms, FALSE, <<>>), g, <<SP>>) : g \in {"none", "colon"}}
EditInputs ==
    UNION {EditVariants("object", ms) :
              ms \in SeqsUpTo(KeyLexemes \X EditValueLexemes, MaxMembers)}
    \cup UNION {EditVariants("array", vs) : vs \in SeqsUpTo(EditValueLexemes, MaxMembers)}

\* The keys a caller assigns to, and the nodes it assigns
EditKeys == {<<"a">>, <<"b">>, <<"z">>}
NewNodes == {String(<<"w">>), Number(<<"1">>)}

\* Arrays to edit: items that are numbers, strings, nested arrays and nested
\* objects, compact or with a space after each comma; the indices a caller
\* assigns to, the last one past the end of every array
ArrayEditLexemes ==
    {<<"1">>, StrA, <<"[", "1", "]">>, <<"{">> \o StrB \o <<":", "1", "}">>}
ArrayEditInputs ==
    UNION {{Render(Items("array", vs, FALSE, <<>>), g, <<SP>>) : g \in {"none", "comma"}} :
              vs \in SeqsUpTo(ArrayEditLexemes, MaxMembers)}
EditIndices == (0 - 1)..MaxMembers

----------------------------------------------------------------------------
(* The state machine *)

NoResult == [kind |-> "none", msg |-> [what |-> "", arg |-> <<>>], pos |-> <<>>]
NoSet == [obj |-> 0, key |-> <<>>, value |-> 0, h |-> <<>>]
NoReparse == [done |-> FALSE, text |-> <<>>, kind |-> "none", out |-> <<>>]

InitOn(inputs) ==
    /\ text \in inputs
    /\ lexer = Lexer
    /\ tokens = <<>>
    /\ token_pos = <<>>
    /\ spans = <<>>
    /\ pc = "lexer"
    /\ config = NoConfig
    /\ result = NoResult
    /\ heap = <<>>
    /\ root = 0
    /\ nsets = 0
    /\ api_exc = "none"
    /\ last_set = NoSet
    /\ reparse = NoReparse

\* One pass of the loop of Lexer.tokenize: next_token() returns a token
NextToken ==
    /\ pc = "lexer"
    /\ current_char(text, lexer) # None
    /\ \E r \in {next_token(text, lexer)} :
           /\ r.L.exc = "none"
           /\ lexer' = r.L
           /\ tokens' = Append(tokens, r.token)
           /\ token_pos' = Append(token_pos, <<r.L.row, r.L.col>>)
           /\ spans' = Append(spans, <<lexer.pos, r.L.pos>>)
    /\ UNCHANGED <<text, pc, config, result, heap, root, nsets, api_exc, last_set, reparse>>

\* One pass of the loop of Lexer.tokenize: next_token() raises
NextTokenRaises ==
    /\ pc = "lexer"
    /\ current_char(text, lexer) # None
    /\ \E r \in {next_token(text, lexer)} :
           /\ r.L.exc # "none"
           /\ lexer' = r.L
    /\ pc' = "lex_error"
    /\ UNCHANGED <<text, tokens, token_pos, spans, config, result, heap, root, nsets,
                   api_exc, last_set, reparse>>

\* Lexer.tokenize returns the list
TokenizeReturns ==
    /\ pc = "lexer"
    /\ current_char(text, lexer) = None
    /\ pc' = "tokens"
    /\ UNCHANGED <<text, lexer, tokens, token_pos, spans, config, result, heap, root,
                   nsets, api_exc, last_set, reparse>>

\* AlexsonParser.__init__(text, cfg)
NewParser(cfg) ==
    /\ pc = "lexer"
    /\ lexer = Lexer
    /\ \E lx \in {tokenize(text)} :
           /\ lexer' = lx.L
           /\ tokens' = lx.tokens
           /\ token_pos' = lx.token_pos
           /\ spans' = lx.spans
           /\ pc' = IF lx.L.exc = "none" THEN "parser" ELSE "lex_error"
           /\ config' = IF lx.L.exc = "none" THEN cfg ELSE config
    /\ UNCHANGED <<text, result, heap, root, nsets, api_exc, last_set, reparse>>

\* AlexsonParser.parse()
Parse ==
    /\ pc = "parser"
    /\ \E st \in {parse([tokens |-> tokens, token_pos |-> token_pos, config |-> config])} :
           IF st.exc = "none"
           THEN /\ pc' = "parsed"
                /\ result' = [NoResult EXCEPT !.kind = "Root"]
                /\ heap' = st.h
                /\ root' = st.out
           ELSE /\ pc' = "failed"
                /\ result' = [kind |-> st.exc, msg |-> st.msg, pos |-> st.pos]
                /\ UNCHANGED <<heap, root>>
    /\ UNCHANGED <<text, lexer, tokens, token_pos, spans, config, nsets, api_exc, last_set, reparse>>

\* AlexsonParser(str(root), config).parse(), and the text of what it returns
Reparse ==
    /\ pc = "parsed"
    /\ ~reparse.done
    /\ \E s \in {to_alexson(heap, root)} :
         \E st \in {parse_text(s, config)} :
           reparse' = [done |-> TRUE, text |-> s,
                       kind |-> IF st.exc = "none" THEN "Root" ELSE st.exc,
                       out |-> IF st.exc = "none" THEN to_alexson(st.h, st.out) ELSE <<>>]
    /\ UNCHANGED <<text, lexer, tokens, token_pos, spans, pc, config, result, heap, root,
                   nsets, api_exc, last_set>>

InitLex == InitOn(LexInputs)
NextLex == NextToken \/ NextTokenRaises \/ TokenizeReturns
SpecLex == InitLex /\ [][NextLex]_vars

\* Lexer(t): the constructor, from the state in which no lexer exists yet
NewLexer(t) ==
    /\ pc = "new"
    /\ text' = t
    /\ pc' = "lexer"
    /\ UNCHANGED <<lexer, tokens, token_pos, spans, config, result, heap, root, nsets,
                   api_exc, last_set, reparse>>

\* A lexer is made for some text and tokenize() runs on it. tokenize() is one
\* loop run by one thread: a pass that can be made is made. LoopRuns is
\* WF_vars(NextLex) with ENABLED <<NextLex>>_vars written out: a pass can be
\* made exactly when pc = "lexer".
LoopRuns == []<>(pc # "lexer") \/ []<><<NextLex>>_vars
InitScan ==
    /\ text = <<>>
    /\ lexer = Lexer
    /\ tokens = <<>>
    /\ token_pos = <<>>
    /\ spans = <<>>
    /\ pc = "new"
    /\ config = NoConfig
    /\ result = NoResult
    /\ heap = <<>>
    /\ root = 0
    /\ nsets = 0
    /\ api_exc = "none"
    /\ last_set = NoSet
    /\ reparse = NoReparse
NextScan == (\E t \in ScanInputs : NewLexer(t)) \/ NextLex
SpecScan == InitScan /\ [][NextScan]_vars /\ LoopRuns

Init == InitOn(DocInputs)
Next == (\E cfg \in Configs : NewParser(cfg)) \/ Parse \/ Reparse
Spec == Init /\ [][Next]_vars

\* obj[key] = node, for an Object the caller reaches from the root and a
\* node it has just constructed
SetItem(obj, key, node) ==
    /\ pc = "parsed"
    /\ nsets < MaxSets
    /\ heap[obj].cls = "Object"
    /\ \E r \in {Object_setitem(Append(heap, node), obj, key, Len(heap) + 1)} :
           /\ heap' = r.h
           /\ api_exc' = r.exc
    /\ last_set' = [obj |-> obj, key |-> key, value |-> Len(heap) + 1,
                    h |-> Append(heap, node)]
    /\ nsets' = nsets + 1
    /\ UNCHANGED <<text, lexer, tokens, token_pos, spans, pc, config, result, root, reparse>>

InitEdit == InitOn(EditInputs)
NextEdit ==
    \/ \E cfg \in Configs : NewParser(cfg)
    \/ Parse
    \/ \E obj \in reachable(heap, root), key \in EditKeys, node \in NewNodes :
           SetItem(obj, key, node)
SpecEdit == InitEdit /\ [][NextEdit]_vars

\* arr[key] = node, for an Array the caller reaches from the root and a node
\* it has just constructed
SetIndex(arr, key, node) ==
    /\ pc = "parsed"
    /\ nsets < MaxSets
    /\ heap[arr].cls = "Array"
    /\ \E r \in {Array_setitem(Append(heap, node), arr, key, Len(heap) + 1)} :
           /\ heap' = r.h
           /\ api_exc' = r.exc
    /\ last_set' = [obj |-> arr, key |-> key, value |-> Len(heap) + 1,
                    h |-> Append(heap, node)]
    /\ nsets' = nsets + 1
    /\ UNCHANGED <<text, lexer, tokens, token_pos, spans, pc, config, result, root, reparse>>

InitArray == InitOn(ArrayEditInputs)
NextArray ==
    \/ \E cfg \in Configs : NewParser(cfg)
    \/ Parse
    \/ \E obj \in reachable(heap, root), key \in EditKeys, node \in NewNodes :
           SetItem(obj, key, node)
    \/ \E arr \in reachable(heap, root), key \in EditIndices, node \in NewNodes :
           SetIndex(arr, key, node)
SpecArray == InitArray /\ [][NextArray]_vars

----------------------------------------------------------------------------
(* Notions the properties are stated with *)

Finished == pc \in {"parsed", "failed"}
FreshTree == pc = "parsed" /\ nsets = 0

Openers == {"LBRACE", "LBRACKET"}
Closers == {"RBRACE", "RBRACKET"}

Min(S) == CHOOSE x \in S : \A y \in S : x <= y

\* parse() accepts the token list toks under the current configuration
Accepts(toks) ==
    parse([tokens |-> toks, token_pos |-> [i \in 1..Len(toks) |-> <<0, 0>>],
           config |-> config]).exc = "none"

\* The part of the text that token i was scanned from
Slice(i) == SubSeq(text, spans[i][1] + 1, spans[i][2])

\* Index of the first token after i that is not formatting, 0 if none
NextSignificant(toks, i) ==
    LET later == {m \in (i + 1)..Len(toks) : toks[m].type \notin NON_JSON_TYPES}
    IN  IF later = {} THEN 0 ELSE Min(later)

\* Containers open just before token i
Depth(toks, i) ==
    Cardinality({m \in 1..(i - 1) : toks[m].type \in Openers})
    - Cardinality({m \in 1..(i - 1) : toks[m].type \in Closers})

\* Token i is the key of an object member
IsKey(toks, i) ==
    /\ toks[i].type = "STRING"
    /\ NextSignificant(toks, i) # 0
    /\ toks[NextSignificant(toks, i)].type = "COLON"

\* Keys i < j belong to the same object
SameObject(toks, i, j) ==
    /\ i < j
    /\ Depth(toks, i) = Depth(toks, j)
    /\ \A m \in i..j : Depth(toks, m) >= Depth(toks, i)

\* The member keys that repeat an earlier key of their object
RepeatedKeys(toks) ==
    {j \in 1..Len(toks) :
        /\ IsKey(toks, j)
        /\ \E i \in 1..(j - 1) :
              IsKey(toks, i) /\ SameObject(toks, i, j) /\ toks[i].value = toks[j].value}

\* The same tokens with every repeated key replaced by a key of its own
FreshKey(j) == <<"fresh">> \o [k \in 1..j |-> "#"]
Renamed(toks) ==
    [j \in 1..Len(toks) |->
        IF j \in RepeatedKeys(toks) THEN Token("STRING", FreshKey(j)) ELSE toks[j]]

\* Index of the last token of the value of the member whose key is token j
ValueEnd(toks, j) ==
    LET first == NextSignificant(toks, NextSignificant(toks, j))
    IN  IF toks[first].type \in Openers
        THEN Min({m \in first..Len(toks) : Depth(toks, m + 1) = Depth(toks, first)})
        ELSE first

PosAfter(i) == IF i + 1 <= Len(tokens) THEN token_pos[i + 1] ELSE <<-1, -1>>

\* Index of the last token before i that is not formatting, 0 if none
PrevSignificant(toks, i) ==
    LET earlier == {m \in 1..(i - 1) : toks[m].type \notin NON_JSON_TYPES}
    IN  IF earlier = {} THEN 0 ELSE CHOOSE m \in earlier : \A n \in earlier : n <= m

\* A comma that follows a member and is directly followed by a closer, and the
\* tokens without such commas
TrailingCommas(toks) ==
    {i \in 1..(Len(toks) - 1) :
        /\ toks[i].type = "COMMA"
        /\ toks[i + 1].type \in Closers
        /\ PrevSignificant(toks, i) # 0
        /\ toks[PrevSignificant(toks, i)].type \notin Openers \cup {"COMMA", "COLON"}}
RECURSIVE Without(_, _, _)
Without(toks, drop, i) ==
    IF i > Len(toks) THEN <<>>
    ELSE (IF i \in drop THEN <<>> ELSE <<toks[i]>>) \o Without(toks, drop, i + 1)

\* The tokens without the formatting that ends them
RECURSIVE StripTrailing(_)
StripTrailing(toks) ==
    IF toks # <<>> /\ toks[Len(toks)].type \in NON_JSON_TYPES
    THEN StripTrailing(SubSeq(toks, 1, Len(toks) - 1))
    ELSE toks

\* A complete root container followed, after any formatting, by another token
StrayAfterRoot ==
    \E n \in 1..(Len(tokens) - 1) :
        /\ tokens[n].type \in Closers
        /\ Accepts(SubSeq(tokens, 1, n))
        /\ \E m \in (n + 1)..Len(tokens) : tokens[m].type \notin NON_JSON_TYPES

CommentTokens == {i \in 1..Len(tokens) : tokens[i].type = "COMMENT"}
TextWithoutComments ==
    Concat([i \in 1..Len(tokens) |-> IF i \in CommentTokens THEN <<>> ELSE Slice(i)])

\* The leaves of the tree under node id, in order
RECURSIVE Leaves(_, _)
RECURSIVE LeavesOf(_, _)
Leaves(h, id) == IF h[id].cls \in BlockClasses THEN LeavesOf(h, h[id].children) ELSE <<id>>
LeavesOf(h, ids) ==
    IF ids = <<>> THEN <<>> ELSE Leaves(h, Head(ids)) \o LeavesOf(h, Tail(ids))

IsCommentNode(n) == n.cls = "Comment"
IsCommentToken(t) == t.type = "COMMENT"
CommentsOfTree ==
    LET ls == Leaves(heap, root)
    IN  SelectSeq([i \in 1..Len(ls) |-> heap[ls[i]]], IsCommentNode)

\* Positions among obj.children: the keys, and the value of the key at j
NextChild(h, obj, j) ==
    LET kids == h[obj].children
        later == {m \in (j + 1)..Len(kids) : h[kids[m]].cls \notin NonJsonClasses}
    IN  IF later = {} THEN 0 ELSE Min(later)
IsKeyChild(h, obj, j) ==
    /\ h[h[obj].children[j]].cls = "String"
    /\ NextChild(h, obj, j) # 0
    /\ h[h[obj].children[NextChild(h, obj, j)]].cls = "Colon"
KeyPositions(h, obj, key) ==
    {j \in 1..Len(h[obj].children) :
        IsKeyChild(h, obj, j) /\ h[h[obj].children[j]].value = key}
ValuePosition(h, obj, j) == NextChild(h, obj, NextChild(h, obj, j))

WithoutBackslashes(s) == SelectSeq(s, LAMBDA c : c # Backslash)

----------------------------------------------------------------------------
(* Properties *)

\* C1: with comments retained, the serialization of the tree parse() returns
\* is the input text, character for character.
RoundTripIdentity ==
    (FreshTree /\ config.allow_comments) => to_alexson(heap, root) = text

\* C2: after the first obj[k] = node on an existing key the serialization is
\* the one before with only the value of member k replaced by the new node.
LocalizedMutation ==
    (pc = "parsed" /\ nsets = 1 /\ api_exc = "none") =>
        LET before == last_set.h
            obj == last_set.obj
            at == ValuePosition(before, obj, Min(KeyPositions(before, obj, last_set.key)))
        IN  to_alexson(heap, root)
              = to_alexson([before EXCEPT ![obj].children[at] = last_set.value], root)

\* C3: when the tokens end with formatting or comments after a well-formed
\* document (or consist of formatting only), parse() returns a Root.
TrailingFormattingConsumed ==
    (/\ Finished
     /\ tokens # <<>>
     /\ tokens[Len(tokens)].type \in NON_JSON_TYPES
     /\ Accepts(StripTrailing(tokens)))
        => result.kind = "Root"

\* C4: a text that is well formed but for a comma directly before a closer is
\* accepted iff allow_trailing_comma is set, and fails with an
\* AlexsonParserException when it is not.
TrailingCommaPolicy ==
    (/\ Finished
     /\ TrailingCommas(tokens) # {}
     /\ Accepts(Without(tokens, TrailingCommas(tokens), 1)))
        => /\ (result.kind = "Root") <=> config.allow_trailing_comma
           /\ ~config.allow_trailing_comma => result.kind = "AlexsonParserException"

\* C5: a text that is well formed but for keys repeated within one object
\* fails with an AlexsonParserException "Duplicate key" that names a repeated
\* key and is raised right after the value of that repeated member; no tree
\* is returned.
DuplicateKeyRejected ==
    (/\ Finished
     /\ RepeatedKeys(tokens) # {}
     /\ Accepts(Renamed(tokens)))
        => /\ result.kind = "AlexsonParserException"
           /\ result.msg.what = "Duplicate key"
           /\ \E j \in RepeatedKeys(tokens) :
                 /\ result.msg.arg = tokens[j].value
                 /\ result.pos = PosAfter(ValueEnd(tokens, j))
           /\ root = 0
           /\ heap = <<>>

DuplicateKeyWitness ==
    /\ pc = "failed"
    /\ RepeatedKeys(tokens) # {}
    /\ Accepts(Renamed(tokens))
    /\ \E i \in 1..Len(tokens) : tokens[i].type \in NON_JSON_TYPES
    /\ result.msg.what = "Duplicate key"

\* C6: of a text with comments, the tree keeps every comment as one Comment
\* node and serializes to the text when allow_comments is set, and serializes
\* to the text without its comments when it is not.
CommentRetention ==
    (FreshTree /\ CommentTokens # {}) =>
        IF config.allow_comments
        THEN /\ to_alexson(heap, root) = text
             /\ Len(CommentsOfTree) = Cardinality(CommentTokens)
             /\ \A i \in 1..Len(CommentsOfTree) :
                   CommentsOfTree[i].value = SelectSeq(tokens, IsCommentToken)[i].value
        ELSE to_alexson(heap, root) = TextWithoutComments

\* C7: the serialization S of a freshly parsed tree is accepted by parse, and
\* the tree parsed from S serializes to S.
IdempotentReserialization ==
    (reparse.done /\ nsets = 0) => (reparse.kind = "Root" /\ reparse.out = reparse.text)

IdempotentWitness ==
    /\ reparse.done
    /\ nsets = 0
    /\ reparse.kind = "Root"
    /\ reparse.text # text
    /\ Backslash \in {reparse.text[i] : i \in 1..Len(reparse.text)}

\* C8: a complete root container followed by a further significant token
\* makes parse() fail with an AlexsonParserException that carries a position.
StrayContentRejected ==
    (Finished /\ StrayAfterRoot) =>
        (result.kind = "AlexsonParserException" /\ Len(result.pos) = 2)

\* C9: the tokens scanned so far come from contiguous, non-empty spans that
\* start at offset 0 and end at the lexer's position, which is the length of
\* the text once tokenize() returns; a token's text is the text of its span,
\* for a STRING less its two quotes and its backslashes.
ScannerCoverage ==
    (pc \in {"lexer", "tokens"}) =>
        /\ Len(spans) = Len(tokens)
        /\ \A i \in 1..Len(tokens) :
              /\ spans[i][1] = (IF i = 1 THEN 0 ELSE spans[i - 1][2])
              /\ spans[i][1] < spans[i][2]
              /\ spans[i][2] <= Len(text)
              /\ IF tokens[i].type = "STRING"
                 THEN /\ Len(Slice(i)) >= 2
                      /\ Slice(i)[1] = Quote
                      /\ Slice(i)[Len(Slice(i))] = Quote
                      /\ tokens[i].value
                           = WithoutBackslashes(SubSeq(Slice(i), 2, Len(Slice(i)) - 1))
                 ELSE tokens[i].value = Slice(i)
        /\ lexer.pos = (IF tokens = <<>> THEN 0 ELSE spans[Len(spans)][2])
        /\ pc = "tokens" => lexer.pos = Len(text)

ScannerCoverageWitness ==
    /\ pc = "tokens"
    /\ Len(tokens) >= 2
    /\ \E i \in 1..Len(tokens) :
          tokens[i].type = "STRING" /\ Len(tokens[i].value) < Len(Slice(i)) - 2
    /\ \E i \in 1..Len(tokens) : tokens[i].type \in {"BOOLEAN", "NULL"}

\* C10: after a successful parse and any assignments to existing keys, every
\* key of every Object's dict is the key of exactly one member among the
\* children, and the dict's value node is the node at that member's value
\* position.
KeyIndexInvariant ==
    pc = "parsed" =>
        \A obj \in {o \in 1..Len(heap) : heap[o].cls = "Object"} :
            \A e \in 1..Len(heap[obj].dict) :
                LET at == KeyPositions(heap, obj, heap[obj].dict[e].key)
                IN  /\ Cardinality(at) = 1
                    /\ \A j \in at :
                          /\ ValuePosition(heap, obj, j) # 0
                          /\ heap[obj].children[ValuePosition(heap, obj, j)]
                               = heap[obj].dict[e].v

\* Positions among arr.children: the items, in order
ItemPositions(h, arr) ==
    {j \in 1..Len(h[arr].children) :
        h[h[arr].children[j]].cls
            \notin NonJsonClasses \cup {"Comma", "LBracket", "RBracket"}}
ItemPosition(h, arr, n) ==
    CHOOSE j \in ItemPositions(h, arr) :
        Cardinality({q \in ItemPositions(h, arr) : q <= j}) = n

ArraySetDone ==
    /\ pc = "parsed"
    /\ nsets = 1
    /\ api_exc = "none"
    /\ heap[last_set.obj].cls = "Array"

\* C11: after the first arr[i] = node with a valid index, arr[i] is node,
\* node stands among the children where the former i-th item stood, every
\* other child is unchanged, and the serialization shows node's text there.
ArraySetConsistent ==
    ArraySetDone =>
        LET before == last_set.h
            arr == last_set.obj
            n == list_position(Len(before[arr].items), last_set.key)
            at == ItemPosition(before, arr, n)
            expected == [before EXCEPT ![arr].children[at] = last_set.value]
        IN  /\ Array_getitem(heap, arr, last_set.key) = last_set.value
            /\ heap[arr].children = expected[arr].children
            /\ to_alexson(heap, root) = to_alexson(expected, root)

\* The containers a caller holds after parsing: those it reaches from the root
Containers == {c \in reachable(heap, root) : heap[c].cls \in BlockClasses}

\* C12: two containers compare equal exactly when they are of the same
\* variant and their children are equal element by element, in every state
\* after parsing and after any indexed assignments.
ContainerEquality ==
    pc = "parsed" =>
        \A a \in Containers, b \in Containers :
            node_eq(heap, a, b)
                <=> (/\ heap[a].cls = heap[b].cls
                     /\ list_eq(heap, heap[a].children, heap[b].children))

\* C13: parsing the empty text returns a Root without children and without
\* primary container, equal to a fresh Root(), that serializes to the empty
\* text.
EmptyInput ==
    (Finished /\ text = <<>>) =>
        /\ result.kind = "Root"
        /\ heap[root].cls = "Root"
        /\ heap[root].children = <<>>
        /\ get_primary_obj(heap, root) = 0
        /\ node_eq(Append(heap, Node("Root")), root, Len(heap) + 1)
        /\ to_alexson(heap, root) = <<>>

EmptyInputWitness == pc = "parsed" /\ text = <<>> /\ tokens = <<>> /\ root # 0

\* The formatting tokens that stand between an opener and its closer with
\* nothing else between them, or, when trailing commas are allowed, between
\* a comma and the closer
GapBeforeCloser(toks) ==
    {i \in 1..Len(toks) :
        /\ toks[i].type \in NON_JSON_TYPES
        /\ NextSignificant(toks, i) # 0
        /\ toks[NextSignificant(toks, i)].type \in Closers
        /\ PrevSignificant(toks, i) # 0
        /\ \/ toks[PrevSignificant(toks, i)].type \in Openers
           \/ /\ toks[PrevSignificant(toks, i)].type = "COMMA"
              /\ config.allow_trailing_comma}

\* The formatting nodes a tree of these tokens holds when all are retained
FormattingNodesOf(toks) ==
    LET count[i \in 0..Len(toks)] ==
            IF i = 0 THEN 0
            ELSE count[i - 1]
                 + (IF toks[i].type = "COMMENT"
                        THEN (IF config.allow_comments THEN 1 ELSE 0)
                    ELSE IF toks[i].type \in NON_JSON_TYPES THEN Len(toks[i].value)
                    ELSE 0)
    IN  count[Len(toks)]
FormattingLeaves ==
    Cardinality({i \in 1..Len(Leaves(heap, root)) :
                    heap[Leaves(heap, root)[i]].cls \in NonJsonClasses})

\* C14: a text that is accepted without the formatting that stands directly
\* before a closer (after the opener, or after a trailing comma when those
\* are allowed) is accepted with it, arrays as objects, and the tree retains
\* the formatting.
FormattingBeforeCloser ==
    (/\ Finished
     /\ GapBeforeCloser(tokens) # {}
     /\ Accepts(Without(tokens, GapBeforeCloser(tokens), 1)))
        => /\ result.kind = "Root"
           /\ FormattingLeaves = FormattingNodesOf(tokens)

\* The tokens end inside an object or array that is not closed
EndsUnclosed(toks) == Depth(toks, Len(toks) + 1) > 0

\* C15: whenever tokenization succeeds, parse() returns a Root or raises an
\* AlexsonParserException that carries a (row, column) position; so it does
\* in particular when the tokens end inside an unclosed object or array.
ParseErrorsReported ==
    Finished =>
        \/ result.kind = "Root"
        \/ /\ result.kind = "AlexsonParserException"
           /\ Len(result.pos) = 2

\* The backslashes that stand directly before position q of t, from lo on
BackslashesBefore(t, q, lo) ==
    LET runs == {k \in 0..(q - lo) : \A j \in (q - k)..(q - 1) : t[j] = Backslash}
    IN  CHOOSE k \in runs : \A m \in runs : m <= k

\* The string that opens at offset pos of t has no closing quote: every later
\* quote is escaped
Unterminated(t, pos) ==
    \A q \in (pos + 2)..Len(t) :
        t[q] = Quote => BackslashesBefore(t, q, pos + 2) % 2 = 1

ScanEnded == pc \in {"tokens", "lex_error"}

\* C16: tokenize() ends, returning the tokens or raising AlexsonLexicalError;
\* every next_token() that returns has moved pos forward; and next_token() on
\* a string without closing quote raises.
ScanningTerminates ==
    /\ (pc = "lexer") ~> ScanEnded
    /\ [][NextToken => lexer'.pos > lexer.pos]_vars
    /\ [][(/\ pc = "lexer"
           /\ current_char(text, lexer) = Quote
           /\ Unterminated(text, lexer.pos)) => pc' = "lex_error"]_vars

\* Offset at which the token being scanned when the lexer raised begins
FailedAt == IF spans = <<>> THEN 0 ELSE spans[Len(spans)][2]

ScanningTerminatesWitness ==
    /\ pc = "lex_error"
    /\ text[FailedAt + 1] = Quote
    /\ Unterminated(text, FailedAt)
    /\ \E q \in (FailedAt + 2)..Len(text) : text[q] = Quote
    /\ lexer.msg = <<"End of input">>

IdentStart(c) == c \in Letters \cup {"_"}
IdentChar(c) == c \in Letters \cup Digits \cup {"_"}

\* Where the longest run of identifier characters that begins at offset from
\* of t ends
RunEnd(t, from) ==
    LET ends == {e \in from..Len(t) : \A j \in (from + 1)..e : IdentChar(t[j])}
    IN  CHOOSE e \in ends : \A f \in ends : f <= e

KeywordType(run) ==
    IF run \in {TRUE_, FALSE_} THEN "BOOLEAN"
    ELSE IF run = NULL_ THEN "NULL"
    ELSE "VARIABLE"

\* C17: a token that begins with a letter or an underscore is the whole run
\* of identifier characters that begins there: BOOLEAN or NULL when the run
\* is exactly true, false or null, and otherwise one VARIABLE holding the run.
IdentifiersWhole ==
    pc = "tokens" =>
        \A i \in 1..Len(tokens) :
            IdentStart(text[spans[i][1] + 1]) =>
                LET run == SubSeq(text, spans[i][1] + 1, RunEnd(text, spans[i][1]))
                IN  /\ spans[i][2] = RunEnd(text, spans[i][1])
                    /\ tokens[i].value = run
                    /\ tokens[i].type = KeywordType(run)

====
